---- MODULE Spec2Model ----
(***************************************************************************)
(* Model of the resolved-policy cache (package policy): PolicyCache, its   *)
(* per-identity cachedSelectorPolicy entries and the selectorPolicy        *)
(* snapshots they publish.  Every goroutine that calls into the cache is a *)
(* thread of the model; each step of a thread is one atomic region of the  *)
(* Go code (a mutex-protected section, an atomic load or an atomic swap).  *)
(***************************************************************************)
EXTENDS Integers, Sequences, FiniteSets, TLC

\* ------------------------------------------------------------------ bounds
MaxEntries == 2
MaxSnaps == 2
MaxRev == 2

Threads == {1, 2}
Identities == {"A", "B"}
NoId == "none"
Selectors == {"s1", "s2", "s3"}
AuthTypeIds == {"X", "Y", "Z"}

\* ------------------------------------------------------------- state
VARIABLES
    cacheLock,   \* PolicyCache.Mutex: 0 when free, else the holding thread
    policies,    \* PolicyCache.policies: identity -> entry handle, 0 = absent
    entries,     \* heap of cachedSelectorPolicy objects, indexed by handle
    snaps,       \* heap of selectorPolicy objects, indexed by handle
    revision,    \* Repository revision
    nilDetach,   \* number of Detach() calls made on a nil *selectorPolicy
    panicked,    \* a goroutine hit a nil dereference: the process is gone
    threads      \* per goroutine: program counter, arguments, locals, result

vars == <<cacheLock, policies, entries, snaps, revision, nilDetach, panicked, threads>>

\* the result a call has not produced yet
NoRet == [op |-> "none", cip |-> 0, changed |-> FALSE, err |-> FALSE,
          ok |-> FALSE, types |-> {}]

IdleThread == [pc |-> "idle", identity |-> NoId, remoteID |-> NoId, cip |-> 0,
               policy |-> 0, selPolicy |-> 0, ret |-> NoRet]

\* ------------------------------------------------- external collaborators
\* CachedSelector.Selects(versioned.Latest(), id): the selector index.
Selects(cs, id) ==
    \/ cs = "s1" /\ id = "A"
    \/ cs = "s2" /\ id = "B"
    \/ cs = "s3"

\* every auth-rule table L4Policy.AuthMap : CachedSelector -> AuthTypes
AllAuthMaps == UNION {[D -> SUBSET AuthTypeIds] : D \in SUBSET Selectors}

\* the tables the resolver hands out in the full cache model
ResolvedAuthMaps ==
    { [cs \in {"s1", "s2"} |-> IF cs = "s1" THEN {"X"} ELSE {"Y", "Z"}] }

\* Repository.resolvePolicyLocked: a fresh selectorPolicy stamped with the
\* repository revision current at resolution time.
resolvePolicyLocked(rev, authMap) ==
    [Revision |-> rev, AuthMap |-> authMap, detached |-> 0, owner |-> 0]

\* selectorPolicy.Detach(): counted per snapshot
Detach(sn, p) == [sn EXCEPT ![p].detached = @ + 1]

\* ------------------------------------------------------- cachedSelectorPolicy
newCachedSelectorPolicy(identity) == [identity |-> identity, policy |-> 0, lock |-> 0]

getPolicy(cip) == entries[cip].policy

\* setPolicy that forgets to release the superseded snapshot
setPolicyNoDetach(cip, policy) ==
    [entries |-> [entries EXCEPT ![cip].policy = policy],
     snaps |-> [snaps EXCEPT ![policy].owner = cip]]

\* setPolicy releasing the snapshot it has just stored
setPolicyDetachesNew(cip, policy) ==
    LET oldPolicy == entries[cip].policy
        swapped == [entries EXCEPT ![cip].policy = policy]
        owned == [snaps EXCEPT ![policy].owner = cip]
    IN  [entries |-> swapped,
         snaps |-> IF oldPolicy # 0 THEN Detach(owned, policy) ELSE owned]

\* setPolicy: swap the slot, Detach the previous occupant if there was one.
\* Yields the new entry heap and the new snapshot heap.
setPolicy(cip, policy) ==
    LET oldPolicy == entries[cip].policy
        swapped == [entries EXCEPT ![cip].policy = policy]
        owned == [snaps EXCEPT ![policy].owner = cip]
    IN  [entries |-> swapped,
         snaps |-> IF oldPolicy # 0 THEN Detach(owned, oldPolicy) ELSE owned]

\* the gate with > in place of >=
AlreadyResolvedStrict(policy, repoRevision) ==
    policy # 0 /\ snaps[policy].Revision > repoRevision

\* line 103: policy != nil && policy.Revision >= cache.repo.GetRevision()
AlreadyResolved(policy, repoRevision) ==
    policy # 0 /\ snaps[policy].Revision >= repoRevision

\* ------------------------------------------------------------ thread helpers
Set(t, rec) == [threads EXCEPT ![t] = rec]
Finish(t, result) == [threads EXCEPT ![t] = [IdleThread EXCEPT !.ret = result]]

\* ============================================================ updateSelectorPolicy
UpdatePolicy(t, identity) ==
    /\ threads[t].pc = "idle"
    /\ threads' = Set(t, [IdleThread EXCEPT !.pc = "u_lookup", !.identity = identity])
    /\ UNCHANGED <<cacheLock, policies, entries, snaps, revision, nilDetach, panicked>>

\* lookupOrCreate returning with the PolicyCache mutex still held
lookupOrCreateKeepsLock(t) ==
    /\ threads[t].pc = "u_lookup"
    /\ cacheLock = 0
    /\ cacheLock' = t
    /\ LET identity == threads[t].identity IN
       IF policies[identity] # 0
       THEN /\ threads' = Set(t, [threads[t] EXCEPT !.pc = "u_lock", !.cip = policies[identity]])
            /\ UNCHANGED <<policies, entries>>
       ELSE /\ Len(entries) < MaxEntries
            /\ entries' = Append(entries, newCachedSelectorPolicy(identity))
            /\ policies' = [policies EXCEPT ![identity] = Len(entries) + 1]
            /\ threads' = Set(t, [threads[t] EXCEPT !.pc = "u_lock", !.cip = Len(entries) + 1])
    /\ UNCHANGED <<snaps, revision, nilDetach, panicked>>

\* lookupOrCreate: the whole body runs under the PolicyCache mutex
lookupOrCreate(t) ==
    /\ threads[t].pc = "u_lookup"
    /\ cacheLock = 0
    /\ LET identity == threads[t].identity IN
       IF policies[identity] # 0
       THEN /\ threads' = Set(t, [threads[t] EXCEPT !.pc = "u_lock", !.cip = policies[identity]])
            /\ UNCHANGED <<policies, entries>>
       ELSE /\ Len(entries) < MaxEntries
            /\ entries' = Append(entries, newCachedSelectorPolicy(identity))
            /\ policies' = [policies EXCEPT ![identity] = Len(entries) + 1]
            /\ threads' = Set(t, [threads[t] EXCEPT !.pc = "u_lock", !.cip = Len(entries) + 1])
    /\ UNCHANGED <<cacheLock, snaps, revision, nilDetach, panicked>>

\* cip.Lock() that does not wait for the holder
cipLockNoMutex(t) ==
    /\ threads[t].pc = "u_lock"
    /\ entries' = [entries EXCEPT ![threads[t].cip].lock = t]
    /\ threads' = Set(t, [threads[t] EXCEPT !.pc = "u_check"])
    /\ UNCHANGED <<cacheLock, policies, snaps, revision, nilDetach, panicked>>

\* cip.Lock()
cipLock(t) ==
    /\ threads[t].pc = "u_lock"
    /\ entries[threads[t].cip].lock = 0
    /\ entries' = [entries EXCEPT ![threads[t].cip].lock = t]
    /\ threads' = Set(t, [threads[t] EXCEPT !.pc = "u_check"])
    /\ UNCHANGED <<cacheLock, policies, snaps, revision, nilDetach, panicked>>

\* the call resolving again whatever the slot holds
checkRevisionAlwaysResolves(t) ==
    /\ threads[t].pc = "u_check"
    /\ threads' = Set(t, [threads[t] EXCEPT !.pc = "u_resolve",
                                             !.policy = getPolicy(threads[t].cip)])
    /\ UNCHANGED <<cacheLock, policies, entries, snaps, revision, nilDetach, panicked>>

\* the gate releasing the entry lock before the resolver runs
checkRevisionUnlockEarly(t) ==
    /\ threads[t].pc = "u_check"
    /\ LET cip == threads[t].cip
           policy == getPolicy(cip)
       IN  /\ entries' = [entries EXCEPT ![cip].lock = 0]
           /\ IF AlreadyResolved(policy, revision)
              THEN threads' = Finish(t, [NoRet EXCEPT !.op = "update", !.cip = cip])
              ELSE threads' = Set(t, [threads[t] EXCEPT !.pc = "u_resolve", !.policy = policy])
    /\ UNCHANGED <<cacheLock, policies, snaps, revision, nilDetach, panicked>>

\* lines 102-105: the revision gate; on a hit return (cip, false, nil)
checkRevision(t) ==
    /\ threads[t].pc = "u_check"
    /\ LET cip == threads[t].cip
           policy == getPolicy(cip)
       IN  IF AlreadyResolved(policy, revision)
           THEN /\ entries' = [entries EXCEPT ![cip].lock = 0]
                /\ threads' = Finish(t, [NoRet EXCEPT !.op = "update", !.cip = cip])
           ELSE /\ threads' = Set(t, [threads[t] EXCEPT !.pc = "u_resolve", !.policy = policy])
                /\ UNCHANGED entries
    /\ UNCHANGED <<cacheLock, policies, snaps, revision, nilDetach, panicked>>

\* lines 108: the resolver succeeds
resolveOk(t) ==
    /\ threads[t].pc = "u_resolve"
    /\ Len(snaps) < MaxSnaps
    /\ \E authMap \in ResolvedAuthMaps :
          snaps' = Append(snaps, resolvePolicyLocked(revision, authMap))
    /\ threads' = Set(t, [threads[t] EXCEPT !.pc = "u_set", !.selPolicy = Len(snaps) + 1])
    /\ UNCHANGED <<cacheLock, policies, entries, revision, nilDetach, panicked>>

\* the error path dropping the cached snapshot
resolveFailClearsSlot(t) ==
    /\ threads[t].pc = "u_resolve"
    /\ entries' = [entries EXCEPT ![threads[t].cip].lock = 0, ![threads[t].cip].policy = 0]
    /\ threads' = Finish(t, [NoRet EXCEPT !.op = "update", !.err = TRUE])
    /\ UNCHANGED <<cacheLock, policies, snaps, revision, nilDetach, panicked>>

\* lines 108-111: the resolver fails; return (nil, false, err)
resolveFail(t) ==
    /\ threads[t].pc = "u_resolve"
    /\ entries' = [entries EXCEPT ![threads[t].cip].lock = 0]
    /\ threads' = Finish(t, [NoRet EXCEPT !.op = "update", !.err = TRUE])
    /\ UNCHANGED <<cacheLock, policies, snaps, revision, nilDetach, panicked>>

\* lines 113-115: cip.setPolicy(selPolicy); return (cip, true, nil)
publish(t) ==
    /\ threads[t].pc = "u_set"
    /\ LET cip == threads[t].cip
           after == setPolicy(cip, threads[t].selPolicy)
       IN  /\ entries' = [after.entries EXCEPT ![cip].lock = 0]
           /\ snaps' = after.snaps
           /\ threads' = Finish(t, [NoRet EXCEPT !.op = "update", !.cip = cip,
                             !.changed = TRUE])
    /\ UNCHANGED <<cacheLock, policies, revision, nilDetach, panicked>>

\* ============================================================ delete
\* LocalEndpointIdentityRemoved(identity) = cache.delete(identity)
LocalEndpointIdentityRemoved(t, identity) ==
    /\ threads[t].pc = "idle"
    /\ threads' = Set(t, [IdleThread EXCEPT !.pc = "d_remove", !.identity = identity])
    /\ UNCHANGED <<cacheLock, policies, entries, snaps, revision, nilDetach, panicked>>

\* delete emptying the whole map
deleteLookupClearsMap(t) ==
    /\ threads[t].pc = "d_remove"
    /\ cacheLock = 0
    /\ LET identity == threads[t].identity
           cip == policies[identity]
       IN  IF cip # 0
           THEN /\ policies' = [id \in Identities |-> 0]
                /\ cacheLock' = t
                /\ threads' = Set(t, [threads[t] EXCEPT !.pc = "d_load", !.cip = cip])
           ELSE /\ threads' = Finish(t, [NoRet EXCEPT !.op = "delete"])
                /\ UNCHANGED <<policies, cacheLock>>
    /\ UNCHANGED <<entries, snaps, revision, nilDetach, panicked>>

\* delete that leaves the entry in the map
deleteLookupKeepsEntry(t) ==
    /\ threads[t].pc = "d_remove"
    /\ cacheLock = 0
    /\ LET identity == threads[t].identity
           cip == policies[identity]
       IN  IF cip # 0
           THEN /\ cacheLock' = t
                /\ threads' = Set(t, [threads[t] EXCEPT !.pc = "d_load", !.cip = cip])
           ELSE /\ threads' = Finish(t, [NoRet EXCEPT !.op = "delete"])
                /\ UNCHANGED cacheLock
    /\ UNCHANGED <<policies, entries, snaps, revision, nilDetach, panicked>>

\* lines 70-74 and, when nothing is cached, 77
deleteLookup(t) ==
    /\ threads[t].pc = "d_remove"
    /\ cacheLock = 0
    /\ LET identity == threads[t].identity
           cip == policies[identity]
       IN  IF cip # 0
           THEN /\ policies' = [policies EXCEPT ![identity] = 0]
                /\ cacheLock' = t
                /\ threads' = Set(t, [threads[t] EXCEPT !.pc = "d_load", !.cip = cip])
           ELSE /\ threads' = Finish(t, [NoRet EXCEPT !.op = "delete"])
                /\ UNCHANGED <<policies, cacheLock>>
    /\ UNCHANGED <<entries, snaps, revision, nilDetach, panicked>>

\* line 75, first half: cip.getPolicy()
deleteLoad(t) ==
    /\ threads[t].pc = "d_load"
    /\ threads' = Set(t, [threads[t] EXCEPT !.pc = "d_detach", !.policy = getPolicy(threads[t].cip)])
    /\ UNCHANGED <<cacheLock, policies, entries, snaps, revision, nilDetach, panicked>>

\* line 75, second half: .Detach(), then the deferred Unlock and return ok
deleteDetach(t) ==
    /\ threads[t].pc = "d_detach"
    /\ cacheLock' = 0
    /\ IF threads[t].policy # 0
       THEN /\ snaps' = Detach(snaps, threads[t].policy)
            /\ UNCHANGED nilDetach
       ELSE /\ nilDetach' = nilDetach + 1
            /\ UNCHANGED snaps
    /\ threads' = Finish(t, [NoRet EXCEPT !.op = "delete", !.ok = TRUE])
    /\ UNCHANGED <<policies, entries, revision, panicked>>

\* ============================================================ identity added
\* the callback populating the cache eagerly
LocalEndpointIdentityAddedCreates(t, identity) ==
    /\ threads[t].pc = "idle"
    /\ cacheLock = 0
    /\ IF policies[identity] # 0
       THEN UNCHANGED <<policies, entries>>
       ELSE /\ Len(entries) < MaxEntries
            /\ entries' = Append(entries, newCachedSelectorPolicy(identity))
            /\ policies' = [policies EXCEPT ![identity] = Len(entries) + 1]
    /\ threads' = Finish(t, [NoRet EXCEPT !.op = "added"])
    /\ UNCHANGED <<cacheLock, snaps, revision, nilDetach, panicked>>

\* lines 118-121
LocalEndpointIdentityAdded(t, identity) ==
    /\ threads[t].pc = "idle"
    /\ threads' = Finish(t, [NoRet EXCEPT !.op = "added"])
    /\ UNCHANGED <<cacheLock, policies, entries, snaps, revision, nilDetach, panicked>>

\* ============================================================ GetAuthTypes
\* the orders in which a Go map range may visit the keys of authMap
Orders(S) == {o \in [1..Cardinality(S) -> S] : \A i, j \in 1..Cardinality(S) : o[i] = o[j] => i = j}

\* the shortcut skipping a pair as soon as one of its types is covered
scanPairSkipsPartlyCovered(resTypes, cs, authTypes, remoteID) ==
    LET missing == \A authType \in authTypes : authType \notin resTypes
    IN  IF missing /\ Selects(cs, remoteID) THEN resTypes \cup authTypes ELSE resTypes

\* lines 154-170: one iteration of the range loop
scanPair(resTypes, cs, authTypes, remoteID) ==
    LET missing == \E authType \in authTypes : authType \notin resTypes
    IN  IF missing /\ Selects(cs, remoteID) THEN resTypes \cup authTypes ELSE resTypes

RECURSIVE scanFrom(_, _, _, _, _)
scanFrom(authMap, order, i, resTypes, remoteID) ==
    IF i > Len(order) THEN resTypes
    ELSE scanFrom(authMap, order, i + 1,
                  scanPair(resTypes, order[i], authMap[order[i]], remoteID), remoteID)

\* lines 152-172 for one iteration order
scanAuthMap(authMap, order, remoteID) == scanFrom(authMap, order, 1, {}, remoteID)

GetAuthTypes(t, localID, remoteID) ==
    /\ threads[t].pc = "idle"
    /\ threads' = Set(t, [IdleThread EXCEPT !.pc = "g_lookup", !.identity = localID,
                                           !.remoteID = remoteID])
    /\ UNCHANGED <<cacheLock, policies, entries, snaps, revision, nilDetach, panicked>>

\* the lookup creating an entry for an unknown identity
authLookupCreates(t) ==
    /\ threads[t].pc = "g_lookup"
    /\ cacheLock = 0
    /\ LET localID == threads[t].identity IN
       IF policies[localID] = 0
       THEN /\ Len(entries) < MaxEntries
            /\ entries' = Append(entries, newCachedSelectorPolicy(localID))
            /\ policies' = [policies EXCEPT ![localID] = Len(entries) + 1]
            /\ threads' = Finish(t, [NoRet EXCEPT !.op = "getAuthTypes"])
       ELSE /\ threads' = Set(t, [threads[t] EXCEPT !.pc = "g_scan", !.cip = policies[localID]])
            /\ UNCHANGED <<policies, entries>>
    /\ UNCHANGED <<cacheLock, snaps, revision, nilDetach, panicked>>

\* lines 142-147
authLookup(t) ==
    /\ threads[t].pc = "g_lookup"
    /\ cacheLock = 0
    /\ LET localID == threads[t].identity IN
       IF policies[localID] = 0
       THEN threads' = Finish(t, [NoRet EXCEPT !.op = "getAuthTypes"])
       ELSE threads' = Set(t, [threads[t] EXCEPT !.pc = "g_scan", !.cip = policies[localID]])
    /\ UNCHANGED <<cacheLock, policies, entries, snaps, revision, nilDetach, panicked>>

\* lines 150-172: load the snapshot and range over its AuthMap
authScan(t) ==
    /\ threads[t].pc = "g_scan"
    /\ LET selPolicy == getPolicy(threads[t].cip) IN
       IF selPolicy = 0
       THEN /\ panicked' = TRUE
            /\ UNCHANGED threads
       ELSE /\ \E order \in Orders(DOMAIN snaps[selPolicy].AuthMap) :
                  threads' = Finish(t, [NoRet EXCEPT !.op = "getAuthTypes",
                      !.types = scanAuthMap(snaps[selPolicy].AuthMap, order, threads[t].remoteID)])
            /\ UNCHANGED panicked
    /\ UNCHANGED <<cacheLock, policies, entries, snaps, revision, nilDetach>>

\* ============================================================ repository
BumpRevision ==
    /\ revision < MaxRev
    /\ revision' = revision + 1
    /\ UNCHANGED <<cacheLock, policies, entries, snaps, nilDetach, panicked, threads>>

\* ============================================================ specification
Init ==
    /\ cacheLock = 0
    /\ policies = [id \in Identities |-> 0]
    /\ entries = <<>>
    /\ snaps = <<>>
    /\ revision = 1
    /\ nilDetach = 0
    /\ panicked = FALSE
    /\ threads = [t \in Threads |-> IdleThread]

Next ==
    /\ ~panicked
    /\ \/ \E t \in Threads, identity \in Identities : UpdatePolicy(t, identity)
       \/ \E t \in Threads : lookupOrCreate(t)
       \/ \E t \in Threads : cipLock(t)
       \/ \E t \in Threads : checkRevision(t)
       \/ \E t \in Threads : resolveOk(t)
       \/ \E t \in Threads : resolveFail(t)
       \/ \E t \in Threads : publish(t)
       \/ \E t \in Threads, identity \in Identities : LocalEndpointIdentityRemoved(t, identity)
       \/ \E t \in Threads : deleteLookup(t)
       \/ \E t \in Threads : deleteLoad(t)
       \/ \E t \in Threads : deleteDetach(t)
       \/ \E t \in Threads, identity \in Identities : LocalEndpointIdentityAdded(t, identity)
       \/ \E t \in Threads, localID \in Identities, remoteID \in Identities :
              GetAuthTypes(t, localID, remoteID)
       \/ \E t \in Threads : authLookup(t)
       \/ \E t \in Threads : authScan(t)
       \/ BumpRevision

Spec == Init /\ [][Next]_vars

\* The auth-type query on its own: identity A has been resolved once, with an
\* arbitrary auth-rule table, and goroutines only call GetAuthTypes.
InitAuth ==
    /\ cacheLock = 0
    /\ policies = [id \in Identities |-> IF id = "A" THEN 1 ELSE 0]
    /\ entries = <<[newCachedSelectorPolicy("A") EXCEPT !.policy = 1]>>
    /\ \E authMap \in AllAuthMaps :
          snaps = <<[resolvePolicyLocked(1, authMap) EXCEPT !.owner = 1]>>
    /\ revision = 1
    /\ nilDetach = 0
    /\ panicked = FALSE
    /\ threads = [t \in Threads |-> IdleThread]

NextAuth ==
    \/ \E t \in Threads, localID \in Identities, remoteID \in Identities :
           GetAuthTypes(t, localID, remoteID)
    \/ \E t \in Threads : authLookup(t)
    \/ \E t \in Threads : authScan(t)

SpecAuth == InitAuth /\ [][NextAuth]_vars

\* The cache while the repository revision stands still and no identity is
\* removed: updates, identity-added callbacks and auth-type queries only.
NextStable ==
    /\ ~panicked
    /\ \/ \E t \in Threads, identity \in Identities : UpdatePolicy(t, identity)
       \/ \E t \in Threads : lookupOrCreate(t)
       \/ \E t \in Threads : cipLock(t)
       \/ \E t \in Threads : checkRevision(t)
       \/ \E t \in Threads : resolveOk(t)
       \/ \E t \in Threads : resolveFail(t)
       \/ \E t \in Threads : publish(t)
       \/ \E t \in Threads, identity \in Identities : LocalEndpointIdentityAdded(t, identity)
       \/ \E t \in Threads, localID \in Identities, remoteID \in Identities :
              GetAuthTypes(t, localID, remoteID)
       \/ \E t \in Threads : authLookup(t)
       \/ \E t \in Threads : authScan(t)

SpecStable == Init /\ [][NextStable]_vars

\* ============================================================ properties
Snapshots == 1..Len(snaps)
Handles == 1..Len(entries)
Quiescent == \A t \in Threads : threads[t].pc = "idle"

\* the snapshot is what a lookup of some identity in the registry leads to
Current(s) == \E id \in Identities : policies[id] # 0 /\ entries[policies[id]].policy = s

\* C1: no snapshot the resolver produced is ever detached more than once,
\* whatever the interleaving of updateSelectorPolicy and delete calls.
DetachedAtMostOnce == \A s \in Snapshots : snaps[s].detached <= 1

\* C2: no snapshot is leaked: when no operation is in progress, every snapshot
\* that was published into an entry and is not the current snapshot of an
\* entry still in the registry has been detached.
NoSnapshotLeaked ==
    Quiescent =>
        \A s \in Snapshots : (snaps[s].owner # 0 /\ ~Current(s)) => snaps[s].detached >= 1

\* the entry a snapshot was resolved for: the one it was published into or,
\* between the resolver's return and setPolicy, the one its resolving call holds
EntryOf(s) ==
    IF snaps[s].owner # 0 THEN snaps[s].owner
    ELSE CHOOSE e \in Handles :
            \E t \in Threads : threads[t].pc = "u_set" /\ threads[t].selPolicy = s
                               /\ threads[t].cip = e

\* thread t takes a step that leaves the program point pc
Leaves(t, pc) == threads[t].pc = pc /\ threads'[t] # threads[t]

UpdateReturned(t) == threads[t].pc = "idle" /\ threads[t].ret.op = "update"

\* C3: concurrent updateSelectorPolicy calls on one identity at one repository
\* revision are serialized: for each entry at most one call per revision gets
\* a snapshot from the resolver and returns changed=true, so no two snapshots
\* resolved for the same entry carry the same revision.
OneResolutionPerRevision ==
    \A s1, s2 \in Snapshots :
        (s1 # s2 /\ EntryOf(s1) = EntryOf(s2)) => snaps[s1].Revision # snaps[s2].Revision

\* two calls on the same entry have returned, one changed=true, one changed=false,
\* with a single snapshot resolved
WitnessSerializedUpdate ==
    /\ Len(snaps) = 1
    /\ UpdateReturned(1) /\ threads[1].ret.changed
    /\ UpdateReturned(2) /\ ~threads[2].ret.changed /\ ~threads[2].ret.err
    /\ threads[1].ret.cip = threads[2].ret.cip
    /\ snaps[1].Revision = revision

\* C4: an updateSelectorPolicy call that finds the entry's snapshot resolved at
\* the current repository revision (a previous call succeeded, no bump since)
\* returns (cip, false, nil), invokes no resolver, publishes nothing, detaches
\* nothing and leaves the slot's snapshot reference as it was.
SecondUpdateIsNoop ==
    [][\A t \in Threads :
          LET cip == threads[t].cip IN
          (/\ Leaves(t, "u_check")
           /\ getPolicy(cip) # 0
           /\ snaps[getPolicy(cip)].Revision = revision)
          => /\ threads'[t].pc = "idle"
             /\ threads'[t].ret = [NoRet EXCEPT !.op = "update", !.cip = cip]
             /\ snaps' = snaps
             /\ nilDetach' = nilDetach
             /\ entries'[cip].policy = entries[cip].policy]_vars

\* one thread alone made calls, the last returned changed=false, and the
\* resolver was invoked once in total
WitnessSecondUpdateIsNoop ==
    /\ UpdateReturned(1) /\ ~threads[1].ret.changed /\ ~threads[1].ret.err
    /\ threads[2] = IdleThread
    /\ Len(snaps) = 1 /\ snaps[1].detached = 0
    /\ entries[threads[1].ret.cip].policy = 1

\* C5: when the entry holds a snapshot older than the repository revision the
\* call goes on to the resolver, and a successful call returns changed=true,
\* puts the new snapshot in the slot, invokes Detach on the old snapshot once
\* and on no other snapshot; the new snapshot has never been detached.
StaleEntryIsReResolved ==
    [][\A t \in Threads :
          LET cip == threads[t].cip
              old == entries[cip].policy
              new == threads[t].selPolicy
          IN
          /\ (/\ Leaves(t, "u_check")
              /\ old # 0
              /\ snaps[old].Revision < revision)
             => threads'[t].pc = "u_resolve"
          /\ Leaves(t, "u_resolve") /\ threads'[t].pc # "idle"
             => /\ threads'[t].pc = "u_set"
                /\ Len(snaps') = Len(snaps) + 1
          /\ Leaves(t, "u_set")
             => /\ threads'[t].ret = [NoRet EXCEPT !.op = "update", !.cip = cip,
                                                   !.changed = TRUE]
                /\ entries'[cip].policy = new
                /\ snaps'[new].detached = 0
                /\ \A s \in Snapshots :
                      snaps'[s].detached =
                          snaps[s].detached + (IF s = old THEN 1 ELSE 0)]_vars

\* one thread alone has resolved revision 1, then revision 2 after the bump
WitnessStaleEntryIsReResolved ==
    /\ UpdateReturned(1) /\ threads[1].ret.changed
    /\ threads[2] = IdleThread
    /\ Len(snaps) = 2
    /\ snaps[1].Revision = 1 /\ snaps[2].Revision = 2
    /\ snaps[1].owner = threads[1].ret.cip /\ snaps[2].owner = threads[1].ret.cip
    /\ entries[threads[1].ret.cip].policy = 2
    /\ snaps[1].detached = 1 /\ snaps[2].detached = 0

\* C6: the revision a load of an entry's slot yields never decreases: once
\* the slot holds a snapshot it holds one of the same or a later revision in
\* every later state.
ObservedRevisionMonotonic ==
    [][\A e \in Handles :
          entries[e].policy # 0
          => /\ entries'[e].policy # 0
             /\ snaps'[entries'[e].policy].Revision >= snaps[entries[e].policy].Revision]_vars

\* a reader got hold of the entry while it was being re-resolved from
\* revision 1 to revision 2
WitnessObservedRevisionMonotonic ==
    \E t \in Threads, e \in Handles :
        /\ threads[t].pc = "g_scan" /\ threads[t].cip = e
        /\ Len(snaps) = 2 /\ snaps[1].owner = e /\ snaps[2].owner = e
        /\ entries[e].policy = 2
        /\ snaps[1].Revision < snaps[2].Revision

\* C7: when the resolver fails the call returns (nil, false, err) with the
\* entry lock released, the slot still holds what the call read from it before
\* resolving, and the call has invoked Detach on nothing.
FailedResolveLeavesEntry ==
    [][\A t \in Threads :
          LET cip == threads[t].cip IN
          /\ Leaves(t, "u_check") /\ threads'[t].pc = "u_resolve"
             => /\ threads'[t].policy = entries[cip].policy
                /\ entries' = entries /\ snaps' = snaps /\ nilDetach' = nilDetach
          /\ Leaves(t, "u_resolve") /\ threads'[t].pc = "idle"
             => /\ threads'[t].ret = [NoRet EXCEPT !.op = "update", !.err = TRUE]
                /\ entries'[cip].lock = 0
                /\ entries'[cip].policy = threads[t].policy
                /\ entries'[cip].policy = entries[cip].policy
                /\ snaps' = snaps
                /\ nilDetach' = nilDetach]_vars

\* one thread alone resolved revision 1 and then failed to resolve revision 2:
\* the revision 1 snapshot is still in the slot, never detached
WitnessFailedResolveLeavesEntry ==
    /\ UpdateReturned(1) /\ threads[1].ret.err
    /\ threads[2] = IdleThread
    /\ revision = 2
    /\ Len(entries) = 1 /\ Len(snaps) = 1
    /\ entries[1].policy = 1 /\ entries[1].lock = 0
    /\ snaps[1].Revision = 1 /\ snaps[1].detached = 0

\* C8: delete returns true exactly when the identity had an entry in the
\* registry, and then has removed it; when there is none it returns false,
\* changes nothing and detaches nothing; an identity without an entry stays
\* without one until a lookupOrCreate for it, so a second delete returns false.
DeleteIsIdempotent ==
    [][\A t \in Threads :
          LET identity == threads[t].identity IN
          /\ Leaves(t, "d_remove")
             => IF policies[identity] # 0
                THEN /\ policies' = [policies EXCEPT ![identity] = 0]
                     /\ threads'[t].pc = "d_load"
                     /\ threads'[t].cip = policies[identity]
                ELSE /\ threads'[t].pc = "idle"
                     /\ threads'[t].ret = [NoRet EXCEPT !.op = "delete"]
                     /\ UNCHANGED <<policies, entries, snaps, nilDetach>>
          /\ Leaves(t, "d_detach")
             => /\ threads'[t].ret = [NoRet EXCEPT !.op = "delete", !.ok = TRUE]
                /\ policies[identity] # threads[t].cip
          /\ \A id \in Identities :
                (policies[id] = 0 /\ policies'[id] # 0)
                => \E u \in Threads : Leaves(u, "u_lookup") /\ threads[u].identity = id]_vars

\* a delete returned true and a delete of the one identity ever cached returned
\* false, with one Detach in total
WitnessDeleteIsIdempotent ==
    /\ threads[1].pc = "idle" /\ threads[1].ret = [NoRet EXCEPT !.op = "delete", !.ok = TRUE]
    /\ threads[2].pc = "idle" /\ threads[2].ret = [NoRet EXCEPT !.op = "delete"]
    /\ \A id \in Identities : policies[id] = 0
    /\ Len(entries) = 1 /\ Len(snaps) = 1
    /\ snaps[1].detached = 1 /\ nilDetach = 0

\* the auth types the rules of a table require towards remoteID
RequiredAuthTypes(authMap, remoteID) ==
    UNION {authMap[cs] : cs \in {c \in DOMAIN authMap : Selects(c, remoteID)}}

\* C9: for a local identity whose entry holds a snapshot, GetAuthTypes returns
\* exactly the union of the auth types of the rules whose selector selects
\* remoteID, for every auth-rule table and every order of iteration.
AuthTypesAreUnionOfMatching ==
    [][\A t \in Threads :
          (Leaves(t, "g_scan") /\ getPolicy(threads[t].cip) # 0)
          => /\ threads'[t].pc = "idle"
             /\ threads'[t].ret.op = "getAuthTypes"
             /\ threads'[t].ret.types =
                    RequiredAuthTypes(snaps[getPolicy(threads[t].cip)].AuthMap,
                                      threads[t].remoteID)]_vars

\* selector s1 -> {X} selects the remote, s2 -> {Y, Z} does not: {X} came back
WitnessAuthTypesAreUnionOfMatching ==
    /\ DOMAIN snaps[1].AuthMap = {"s1", "s2"}
    /\ snaps[1].AuthMap["s1"] = {"X"} /\ snaps[1].AuthMap["s2"] = {"Y", "Z"}
    /\ threads[1].pc = "idle" /\ threads[1].ret.op = "getAuthTypes"
    /\ threads[1].ret.types = {"X"}

\* C10: GetAuthTypes for a local identity without an entry returns the empty
\* set without panicking, creates no entry and changes nothing in the cache.
UnknownLocalIdentityIsEmpty ==
    [][\A t \in Threads :
          (Leaves(t, "g_lookup") /\ policies[threads[t].identity] = 0)
          => /\ threads'[t].pc = "idle"
             /\ threads'[t].ret = [NoRet EXCEPT !.op = "getAuthTypes"]
             /\ UNCHANGED <<cacheLock, policies, entries, snaps, revision,
                            nilDetach, panicked>>]_vars

\* the query returned while no entry had ever been created
WitnessUnknownLocalIdentityIsEmpty ==
    /\ threads[1].pc = "idle" /\ threads[1].ret = [NoRet EXCEPT !.op = "getAuthTypes"]
    /\ Len(entries) = 0
    /\ ~panicked

\* C11: with the repository revision unchanged and no identity removed, no
\* Detach is ever invoked, on a snapshot or on nil, however many reads and
\* same-revision updateSelectorPolicy calls follow the first resolution.
NoDetachWithoutSupersession ==
    /\ nilDetach = 0
    /\ \A s \in Snapshots : snaps[s].detached = 0

\* the entry was resolved once; a later update returned changed=false and a
\* query read the snapshot
WitnessNoDetachWithoutSupersession ==
    /\ UpdateReturned(1) /\ ~threads[1].ret.changed /\ ~threads[1].ret.err
    /\ threads[2].pc = "idle" /\ threads[2].ret.op = "getAuthTypes"
    /\ threads[2].ret.types = {"X"}
    /\ Len(snaps) = 1 /\ snaps[1].owner = threads[1].ret.cip
    /\ entries[threads[1].ret.cip].policy = 1

\* C12: LocalEndpointIdentityAdded changes nothing: no entry is created, no
\* resolution and no Detach happens, registry and slots stay as they are.
IdentityAddedIsNoop ==
    [][\A t \in Threads :
          (Leaves(t, "idle") /\ threads'[t].pc = "idle")
          => /\ threads'[t].ret = [NoRet EXCEPT !.op = "added"]
             /\ UNCHANGED <<cacheLock, policies, entries, snaps, revision,
                            nilDetach, panicked>>]_vars

\* the callback returned for an identity the cache had no entry for, while the
\* other identity's entry holds its snapshot
WitnessIdentityAddedIsNoop ==
    /\ threads[1].pc = "idle" /\ threads[1].ret.op = "added"
    /\ Len(entries) = 1 /\ entries[1].policy # 0
    /\ \E id \in Identities : policies[id] = 0
    /\ \E id \in Identities : policies[id] = 1

\* the threads between cip.Lock() and the deferred cip.Unlock() on entry e
InUpdate(e) ==
    {t \in Threads : threads[t].pc \in {"u_check", "u_resolve", "u_set"} /\ threads[t].cip = e}

\* C13: at most one thread at a time is inside the check / resolve / publish
\* sequence of an entry, and it is the holder of the entry's lock.
OneUpdaterPerEntry ==
    \A e \in Handles :
        /\ Cardinality(InUpdate(e)) <= 1
        /\ \A t \in InUpdate(e) : entries[e].lock = t

\* one thread is in the resolver while the other waits for the same entry's lock
WitnessOneUpdaterPerEntry ==
    /\ threads[1].pc = "u_resolve"
    /\ threads[2].pc = "u_lock"
    /\ threads[1].cip = threads[2].cip
    /\ entries[threads[1].cip].lock = 1

\* thread t takes a step
Acts(t) == threads'[t] # threads[t]

\* C14: every change of an entry's slot and every Detach of a snapshot that
\* was published into the entry is made by a thread holding the entry's lock.
SlotTransitionsUnderEntryLock ==
    [][\A e \in Handles :
          (\/ entries'[e].policy # entries[e].policy
           \/ \E s \in Snapshots :
                 snaps[s].owner = e /\ snaps'[s].detached > snaps[s].detached)
          => \E t \in Threads : Acts(t) /\ entries[e].lock = t]_vars

\* the lock a thread is about to take: its holder, or 0
WaitsFor(t) ==
    IF threads[t].pc \in {"u_lookup", "d_remove", "g_lookup"} THEN cacheLock
    ELSE IF threads[t].pc = "u_lock" THEN entries[threads[t].cip].lock
    ELSE 0

\* C15: a thread inside the resolver does not hold the registry lock, and a
\* call on another identity never waits for a lock that thread holds.
ResolverRunsWithoutRegistryLock ==
    \A t \in Threads :
        threads[t].pc = "u_resolve"
        => /\ cacheLock # t
           /\ \A u \in Threads \ {t} :
                 (threads[u].pc # "idle" /\ threads[u].identity # threads[t].identity)
                 => WaitsFor(u) # t

\* A is in the resolver while an update of B has got through lookupOrCreate,
\* cip.Lock and its own resolver call
WitnessResolverRunsWithoutRegistryLock ==
    /\ threads[1].pc = "u_resolve" /\ threads[1].identity = "A"
    /\ threads[2].pc = "u_set" /\ threads[2].identity = "B"
    /\ threads[1].cip # threads[2].cip
    /\ cacheLock = 0

\* C16: delete of an entry whose slot is empty returns true with the entry
\* removed and invokes Detach on nothing, not on a nil snapshot either.
EmptyEntryDeleteDetachesNothing ==
    [][\A t \in Threads :
          (Leaves(t, "d_detach") /\ threads[t].policy = 0)
          => /\ threads'[t].ret = [NoRet EXCEPT !.op = "delete", !.ok = TRUE]
             /\ policies[threads[t].identity] # threads[t].cip
             /\ snaps' = snaps
             /\ nilDetach' = nilDetach]_vars

\* C17: GetAuthTypes never reads an empty slot: an entry it found in the
\* registry holds a snapshot when it is read.
AuthQueryFindsSnapshot ==
    \A t \in Threads : threads[t].pc = "g_scan" => getPolicy(threads[t].cip) # 0

\* C18: the snapshot in the slot of an entry that is in the registry has not
\* been detached.
RegisteredSnapshotIsAttached ==
    \A id \in Identities :
        (policies[id] # 0 /\ entries[policies[id]].policy # 0)
        => snaps[entries[policies[id]].policy].detached = 0

\* one entry was deleted and its snapshot detached; the entry that took its
\* place in the registry holds an attached snapshot
WitnessRegisteredSnapshotIsAttached ==
    /\ Len(entries) = 2 /\ Len(snaps) = 2
    /\ entries[1].identity = entries[2].identity
    /\ policies[entries[2].identity] = 2
    /\ entries[1].policy = 1 /\ snaps[1].detached = 1
    /\ entries[2].policy = 2 /\ snaps[2].detached = 0

\* a step of thread t through one of the cache's methods
Step(t) ==
    /\ ~panicked
    /\ \/ lookupOrCreate(t) \/ cipLock(t) \/ checkRevision(t) \/ resolveOk(t)
       \/ resolveFail(t) \/ publish(t)
       \/ deleteLookup(t) \/ deleteLoad(t) \/ deleteDetach(t)
       \/ authLookup(t) \/ authScan(t)

\* the entry heap of the model is exhausted: lookupOrCreate cannot allocate
HeapFull(t) ==
    /\ threads[t].pc = "u_lookup"
    /\ policies[threads[t].identity] = 0
    /\ Len(entries) >= MaxEntries

HoldsLock(t) == cacheLock = t \/ \E e \in Handles : entries[e].lock = t

\* C19: no call is ever stuck: a call in flight can take its next step, or
\* waits for a lock whose holder can take its next step (no cycle of waiting
\* threads, no call left behind), and a call that has returned holds no lock.
CallsRunToCompletion ==
    \A t \in Threads :
        /\ threads[t].pc = "idle" => ~HoldsLock(t)
        /\ threads[t].pc # "idle"
           => \/ ENABLED Step(t)
              \/ HeapFull(t)
              \/ /\ WaitsFor(t) \notin {0, t}
                 /\ ENABLED Step(WaitsFor(t))

\* C20: a step of a call on identity A leaves every other identity alone: its
\* registry entry stays as it is, no entry is created for it, the slots of
\* its entries keep their snapshot and none of their snapshots is detached.
OtherIdentitiesUntouched ==
    [][\A t \in Threads :
          (Acts(t) /\ threads[t].pc # "idle")
          => \A b \in Identities \ {threads[t].identity} :
                /\ policies'[b] = policies[b]
                /\ \A e \in 1..Len(entries') :
                      entries'[e].identity = b
                      => /\ e \in Handles
                         /\ entries'[e].policy = entries[e].policy
                /\ \A s \in Snapshots :
                      (snaps[s].owner # 0 /\ entries[snaps[s].owner].identity = b)
                      => snaps'[s].detached = snaps[s].detached]_vars

\* A's entry was deleted and its snapshot detached while B's entry still holds
\* its attached snapshot
WitnessOtherIdentitiesUntouched ==
    /\ threads[1].pc = "idle" /\ threads[1].ret = [NoRet EXCEPT !.op = "delete", !.ok = TRUE]
    /\ policies["A"] = 0 /\ policies["B"] # 0
    /\ entries[policies["B"]].policy # 0
    /\ snaps[entries[policies["B"]].policy].detached = 0
    /\ \E s \in Snapshots :
          snaps[s].owner # 0 /\ entries[snaps[s].owner].identity = "A" /\ snaps[s].detached = 1

TypeOK ==
    /\ cacheLock \in {0} \cup Threads
    /\ \A id \in Identities : policies[id] \in 0..Len(entries)
    /\ \A e \in 1..Len(entries) : entries[e].policy \in 0..Len(snaps)
    /\ revision \in 1..MaxRev
====
